---- MODULE Spec2Model ----
(***************************************************************************)
(* Model of backend/llm_client.py: query_model (one request to one         *)
(* provider through litellm.acompletion, failures turned into None) and    *)
(* query_models_parallel (one query_model coroutine per entry of the       *)
(* models list, asyncio.gather over them, a dict built from                *)
(* zip(models, responses)).                                                *)
(*                                                                         *)
(* Python values are tagged records, so that None, "", [] and a dict stay  *)
(* distinct and truthiness is computed as Python computes it.              *)
(***************************************************************************)
EXTENDS Integers, Sequences, FiniteSets, TLC

\* ------------------------------------------------------------------ bounds
\* Longest models list the caller passes.
MaxModels == 3

\* ----------------------------------------------------------- Python values
None == [t |-> "NoneType"]
Str(s) == [t |-> "str", v |-> s]
List(q) == [t |-> "list", v |-> q]
Dict(f) == [t |-> "dict", v |-> f]
Float(n) == [t |-> "float", v |-> n]

\* bool(x) as the `if x:` and `a and b` tests of query_model evaluate it.
Truthy(x) ==
    CASE x.t = "NoneType" -> FALSE
      [] x.t = "str" -> x.v # ""
      [] x.t = "list" -> Len(x.v) > 0
      [] x.t = "dict" -> DOMAIN x.v # {}
      [] x.t = "float" -> x.v # 0

IsNone(x) == x.t = "NoneType"
IsDict(x) == x.t = "dict"

\* The default of query_model's timeout parameter, in seconds.
DefaultTimeout == 120

\* ------------------------------------------------------------ input domains
\* Identifiers are opaque to the code: it passes them to the transport and uses
\* them as dict keys, nothing else. Lists are therefore enumerated up to a
\* renaming of the identifiers: the first identifier of a list is "A", the
\* next new one "B", and so on, which keeps every pattern of repetition.
ProviderNames == <<"A", "B", "C", "D", "E">>
Providers == {ProviderNames[k] : k \in 1..Len(ProviderNames)}
NameIndex(p) == CHOOSE k \in 1..Len(ProviderNames) : ProviderNames[k] = p

FirstUse(ms) ==
    \A i \in DOMAIN ms :
        \/ NameIndex(ms[i]) = 1
        \/ \E j \in 1..(i - 1) : NameIndex(ms[j]) >= NameIndex(ms[i]) - 1

\* Every models list of length 0..MaxModels, duplicates included.
ModelLists ==
    {ms \in UNION {[1..n -> {ProviderNames[k] : k \in 1..n}] : n \in 0..MaxModels} :
        FirstUse(ms)}

\* The caller's message list: dicts with 'role' and 'content'.
Messages == <<[role |-> "user", content |-> "q"]>>

\* reasoning_effort: Optional[str]; "" is a str the type admits.
Efforts == {None, Str(""), Str("none"), Str("high")}

\* The values of reasoning_effort the fan-out is checked against.
FanoutEfforts == {None, Str(""), Str("high")}

\* ------------------------------------------------------- transport boundary
\* What `await acompletion(**kwargs)` does: it raises or returns a response.
Raise(e) == [kind |-> "raise", exc |-> e]
Return(r) == [kind |-> "return", response |-> r]

\* Exception classes acompletion raises: the three openai classes query_model
\* names, and one that only `except Exception` matches.
TransportExceptions ==
    {"AuthenticationError", "RateLimitError", "APITimeoutError", "APIConnectionError"}

\* Classes outside the Exception hierarchy (BaseException only).
BaseExceptionOnly == {"CancelledError", "KeyboardInterrupt", "SystemExit"}

\* A message object: a function from the attributes it has to their values.
\* hasattr(message, a) is a \in DOMAIN message.
MessageAttrs == {"content", "reasoning_content", "thinking_blocks"}

AttrValues(a) ==
    CASE a = "content" -> {None, Str("hello")}
      [] a = "reasoning_content" -> {None, Str(""), Str("r")}
      [] a = "thinking_blocks" -> {None, List(<<>>), List(<<"t">>)}

AllMessages ==
    UNION {{m \in [D -> UNION {AttrValues(a) : a \in MessageAttrs}] :
                \A a \in D : m[a] \in AttrValues(a)} : D \in SUBSET MessageAttrs}

Choice(m) == [message |-> m]
Response(cs) == [choices |-> cs]

Msg1 == [content |-> Str("hello")]
Msg2 == [content |-> Str("hi"), reasoning_content |-> Str("r")]

\* Every transport result a single query_model call is checked against:
\* each exception class, a response without choices, and a response whose
\* first choice carries any message of AllMessages.
AllResults ==
    {Raise(e) : e \in TransportExceptions}
        \cup {Return(Response(<<>>))}
        \cup {Return(Response(<<Choice(m)>>)) : m \in AllMessages}
        \cup {Return(Response(<<Choice(Msg2), Choice(Msg1)>>))}

\* The transport results the fan-out is checked against.
FanoutResults ==
    {Raise(e) : e \in TransportExceptions}
        \cup {Return(Response(<<>>)),
              Return(Response(<<Choice(Msg1)>>)),
              Return(Response(<<Choice(Msg2), Choice(Msg1)>>))}

\* ---------------------------------------------------------------- query_model
\* The arguments one query_model coroutine is created with.
Args(model, msgs, timeout, effort) ==
    [model |-> model, messages |-> msgs, timeout |-> timeout, reasoning_effort |-> effort]

\* BuildKwargs with the key always set, also for a hint of None.
BuildKwargsAlways(args) ==
    [model |-> Str(args.model),
     messages |-> List(args.messages),
     timeout |-> Float(args.timeout),
     reasoning_effort |-> args.reasoning_effort]

\* BuildKwargs without the timeout entry.
BuildKwargsNoTimeout(args) ==
    LET base == [model |-> Str(args.model),
                 messages |-> List(args.messages)]
    IN  IF Truthy(args.reasoning_effort)
        THEN base @@ [reasoning_effort |-> args.reasoning_effort]
        ELSE base

\* Lines 31-39: the kwargs of acompletion.
BuildKwargs(args) ==
    LET base == [model |-> Str(args.model),
                 messages |-> List(args.messages),
                 timeout |-> Float(args.timeout)]
    IN  IF Truthy(args.reasoning_effort)
        THEN base @@ [reasoning_effort |-> args.reasoning_effort]
        ELSE base

\* ExtractResult with the optional fields copied whenever the attribute
\* exists, whatever its value.
ExtractResultHasattrOnly(message) ==
    LET r0 == [content |-> message["content"]]
        r1 == IF "reasoning_content" \in DOMAIN message
              THEN r0 @@ [reasoning_content |-> message["reasoning_content"]]
              ELSE r0
        r2 == IF "thinking_blocks" \in DOMAIN message
              THEN r1 @@ [thinking_blocks |-> message["thinking_blocks"]]
              ELSE r1
    IN  Dict(r2)

\* ExtractResult giving None for a message whose content is None or empty.
ExtractResultNoneOnEmptyContent(message) ==
    IF ~Truthy(message["content"]) THEN None
    ELSE LET r0 == [content |-> message["content"]]
             r1 == IF "reasoning_content" \in DOMAIN message
                         /\ Truthy(message["reasoning_content"])
                   THEN r0 @@ [reasoning_content |-> message["reasoning_content"]]
                   ELSE r0
             r2 == IF "thinking_blocks" \in DOMAIN message
                         /\ Truthy(message["thinking_blocks"])
                   THEN r1 @@ [thinking_blocks |-> message["thinking_blocks"]]
                   ELSE r1
         IN  Dict(r2)

\* Lines 45-57: the result dict built from the message.
ExtractResult(message) ==
    LET r0 == [content |-> message["content"]]
        r1 == IF "reasoning_content" \in DOMAIN message
                    /\ Truthy(message["reasoning_content"])
              THEN r0 @@ [reasoning_content |-> message["reasoning_content"]]
              ELSE r0
        r2 == IF "thinking_blocks" \in DOMAIN message
                    /\ Truthy(message["thinking_blocks"])
              THEN r1 @@ [thinking_blocks |-> message["thinking_blocks"]]
              ELSE r1
    IN  Dict(r2)

\* TryBody reading the last choice instead of the first.
TryBodyLastChoice(tr) ==
    IF tr.kind = "raise" THEN [raises |-> TRUE, exc |-> tr.exc, value |-> None]
    ELSE IF Len(tr.response.choices) = 0
         THEN [raises |-> TRUE, exc |-> "IndexError", value |-> None]
    ELSE LET message == tr.response.choices[Len(tr.response.choices)].message
         IN  IF "content" \notin DOMAIN message
             THEN [raises |-> TRUE, exc |-> "AttributeError", value |-> None]
             ELSE [raises |-> FALSE, exc |-> "", value |-> ExtractResult(message)]

\* Lines 41-57: the try body after the await, as the exception it raises or
\* the value it returns.
TryBody(tr) ==
    IF tr.kind = "raise" THEN [raises |-> TRUE, exc |-> tr.exc, value |-> None]
    ELSE IF Len(tr.response.choices) = 0
         THEN [raises |-> TRUE, exc |-> "IndexError", value |-> None]
    ELSE LET message == tr.response.choices[1].message
         IN  IF "content" \notin DOMAIN message
             THEN [raises |-> TRUE, exc |-> "AttributeError", value |-> None]
             ELSE [raises |-> FALSE, exc |-> "", value |-> ExtractResult(message)]

\* ExceptClauses without the final `except Exception` clause.
ExceptClausesNoCatchAll(model, exc) ==
    CASE exc = "AuthenticationError" ->
            [raised |-> FALSE, exc |-> "", value |-> None,
             printed |-> <<[text |-> "Authentication error for", model |-> model, e |-> exc]>>]
      [] exc = "RateLimitError" ->
            [raised |-> FALSE, exc |-> "", value |-> None,
             printed |-> <<[text |-> "Rate limit error for", model |-> model, e |-> exc]>>]
      [] exc = "APITimeoutError" ->
            [raised |-> FALSE, exc |-> "", value |-> None,
             printed |-> <<[text |-> "Timeout error for", model |-> model, e |-> exc]>>]
      [] OTHER ->
            [raised |-> TRUE, exc |-> exc, value |-> None, printed |-> <<>>]

\* ExceptClauses with the timeout handler printing and re-raising.
ExceptClausesTimeoutReraised(model, exc) ==
    CASE exc = "AuthenticationError" ->
            [raised |-> FALSE, exc |-> "", value |-> None,
             printed |-> <<[text |-> "Authentication error for", model |-> model, e |-> exc]>>]
      [] exc = "RateLimitError" ->
            [raised |-> FALSE, exc |-> "", value |-> None,
             printed |-> <<[text |-> "Rate limit error for", model |-> model, e |-> exc]>>]
      [] exc = "APITimeoutError" ->
            [raised |-> TRUE, exc |-> exc, value |-> None,
             printed |-> <<[text |-> "Timeout error for", model |-> model, e |-> exc]>>]
      [] exc \notin BaseExceptionOnly ->
            [raised |-> FALSE, exc |-> "", value |-> None,
             printed |-> <<[text |-> "Error querying model", model |-> model, e |-> exc]>>]
      [] OTHER ->
            [raised |-> TRUE, exc |-> exc, value |-> None, printed |-> <<>>]

\* ExceptClauses with `except Exception` written first: it shadows the others.
ExceptClausesCatchAllFirst(model, exc) ==
    IF exc \notin BaseExceptionOnly
    THEN [raised |-> FALSE, exc |-> "", value |-> None,
          printed |-> <<[text |-> "Error querying model", model |-> model, e |-> exc]>>]
    ELSE [raised |-> TRUE, exc |-> exc, value |-> None, printed |-> <<>>]

\* Lines 59-70: the except clauses, tried in order. A handler prints one
\* line and returns None; an exception no clause matches propagates.
ExceptClauses(model, exc) ==
    CASE exc = "AuthenticationError" ->
            [raised |-> FALSE, exc |-> "", value |-> None,
             printed |-> <<[text |-> "Authentication error for", model |-> model, e |-> exc]>>]
      [] exc = "RateLimitError" ->
            [raised |-> FALSE, exc |-> "", value |-> None,
             printed |-> <<[text |-> "Rate limit error for", model |-> model, e |-> exc]>>]
      [] exc = "APITimeoutError" ->
            [raised |-> FALSE, exc |-> "", value |-> None,
             printed |-> <<[text |-> "Timeout error for", model |-> model, e |-> exc]>>]
      [] exc \notin BaseExceptionOnly ->
            [raised |-> FALSE, exc |-> "", value |-> None,
             printed |-> <<[text |-> "Error querying model", model |-> model, e |-> exc]>>]
      [] OTHER ->
            [raised |-> TRUE, exc |-> exc, value |-> None, printed |-> <<>>]

\* Lines 29-70 from the resumption of the await on: how the call ends.
QueryModelEnd(args, tr) ==
    LET b == TryBody(tr)
    IN  IF b.raises
        THEN ExceptClauses(args.model, b.exc)
        ELSE [raised |-> FALSE, exc |-> "", value |-> b.value, printed |-> <<>>]

\* -------------------------------------------------------------------- state
VARIABLES
    models,            \* the caller's list of model identifiers
    messages,          \* the caller's list of message dicts
    reasoning_effort,  \* the caller's reasoning_effort argument
    copc,              \* where query_models_parallel is: idle, gathering, returned, raised; "direct" when query_model is called on its own
    coros,             \* the arguments of each query_model coroutine, by position
    tpc,               \* where each coroutine is: created, awaiting, done
    requests,          \* the kwargs of every acompletion call issued, in issue order
    tres,              \* what acompletion did for each settled position
    settled,           \* how each finished coroutine ended: raised, exc, value, printed
    outer,             \* the future asyncio.gather returned
    result,            \* the dict query_models_parallel returned
    order              \* history: the positions in the order their calls settled (recorded under SpecOrder only)

vars == <<models, messages, reasoning_effort, copc, coros, tpc, requests, tres,
          settled, outer, result, order>>

Positions == 1..Len(coros)

NoFuture == [state |-> "none", results |-> <<>>, exc |-> ""]
Pending == [state |-> "pending", results |-> <<>>, exc |-> ""]

\* ---------------------------------------------------------- asyncio.gather
\* gather(*tasks) with no tasks returns a future that already holds [].
GatherNew(n) ==
    IF n = 0 THEN [state |-> "result", results |-> <<>>, exc |-> ""] ELSE Pending

\* gather counting only the children that returned a dict.
GatherCompleteCountingSuccesses(s, n) ==
    /\ DOMAIN s = 1..n
    /\ \A j \in 1..n : ~IsNone(s[j].value)

\* Whether gather has every result it waits for.
GatherComplete(s, n) == DOMAIN s = 1..n

\* A wait that ends with the first child that finishes, the children still
\* running reported as None.
GatherFirstCompleted(o, s, n, i) ==
    IF o.state # "pending" THEN o
    ELSE IF s[i].raised THEN [state |-> "exception", results |-> <<>>, exc |-> s[i].exc]
    ELSE [state |-> "result",
          results |-> [j \in 1..n |-> IF j \in DOMAIN s THEN s[j].value ELSE None],
          exc |-> ""]

\* gather handing out the results in completion order (as_completed).
GatherInCompletionOrder(o, s, n, i) ==
    IF o.state # "pending" THEN o
    ELSE IF s[i].raised THEN [state |-> "exception", results |-> <<>>, exc |-> s[i].exc]
    ELSE IF DOMAIN s = 1..n
         THEN [state |-> "result",
               results |-> [j \in 1..n |-> s[Append(order, i)[j]].value],
               exc |-> ""]
         ELSE o

\* gather's done callback for child i, return_exceptions left False: the
\* first child exception ends the outer future at once, otherwise the outer
\* future gets the children's results, in argument order, once all are done.
GatherDoneCallback(o, s, n, i) ==
    IF o.state # "pending" THEN o
    ELSE IF s[i].raised THEN [state |-> "exception", results |-> <<>>, exc |-> s[i].exc]
    ELSE IF GatherComplete(s, n)
         THEN [state |-> "result", results |-> [j \in 1..n |-> s[j].value], exc |-> ""]
         ELSE o

\* ------------------------------------------------------ query_models_parallel
\* The comprehension with an `if response` filter: None responses are left out.
RECURSIVE DictCompSkipNone(_, _, _)
DictCompSkipNone(ms, rs, n) ==
    IF n = 0 THEN <<>>
    ELSE IF IsNone(rs[n]) THEN DictCompSkipNone(ms, rs, n - 1)
    ELSE (ms[n] :> rs[n]) @@ DictCompSkipNone(ms, rs, n - 1)

\* The comprehension over the responses taken in reverse order.
RECURSIVE DictCompReversed(_, _, _)
DictCompReversed(ms, rs, n) ==
    IF n = 0 THEN <<>>
    ELSE (ms[n] :> rs[Len(rs) + 1 - n]) @@ DictCompReversed(ms, rs, n - 1)

\* The comprehension keeping the first pair of a key (setdefault).
RECURSIVE DictCompFirstWins(_, _, _)
DictCompFirstWins(ms, rs, n) ==
    IF n = 0 THEN <<>>
    ELSE DictCompFirstWins(ms, rs, n - 1) @@ (ms[n] :> rs[n])

\* Line 96: {model: response for model, response in zip(models, responses)},
\* inserted left to right, a later pair replacing an earlier one of its key.
RECURSIVE DictComp(_, _, _)
DictComp(ms, rs, n) ==
    IF n = 0 THEN <<>>
    ELSE (ms[n] :> rs[n]) @@ DictComp(ms, rs, n - 1)

\* zip stopping one pair early.
ZipLenShort(ms, rs) ==
    IF Len(ms) = 0 \/ Len(rs) = 0 THEN 0
    ELSE IF Len(ms) <= Len(rs) THEN Len(ms) - 1 ELSE Len(rs) - 1

ZipLen(ms, rs) == IF Len(ms) <= Len(rs) THEN Len(ms) ELSE Len(rs)

\* Line 90 and the call of gather on line 93: one coroutine per entry of
\* models, each with the shared messages, the default timeout and the
\* caller's reasoning_effort; gather schedules them all.
Call ==
    /\ copc = "idle"
    /\ coros' = [i \in 1..Len(models) |->
                    Args(models[i], messages, DefaultTimeout, reasoning_effort)]
    /\ tpc' = [i \in 1..Len(models) |-> "created"]
    /\ outer' = GatherNew(Len(models))
    /\ copc' = "gathering"
    /\ UNCHANGED <<models, messages, reasoning_effort, requests, tres, settled, result,
                   order>>

\* Start for calls awaited one after the other: a call starts when the
\* calls before it are done.
StartAfterPreviousDone(i) ==
    /\ i \in Positions
    /\ tpc[i] = "created"
    /\ \A j \in 1..(i - 1) : tpc[j] = "done"
    /\ requests' = Append(requests, BuildKwargs(coros[i]))
    /\ tpc' = [tpc EXCEPT ![i] = "awaiting"]
    /\ UNCHANGED <<models, messages, reasoning_effort, copc, coros, tres, settled,
                   outer, result, order>>

\* Lines 29-41: a scheduled coroutine runs to its await: it builds kwargs and
\* issues the request. The event loop starts the tasks in the order gather
\* scheduled them.
Start(i) ==
    /\ i \in Positions
    /\ tpc[i] = "created"
    /\ \A j \in 1..(i - 1) : tpc[j] # "created"
    /\ requests' = Append(requests, BuildKwargs(coros[i]))
    /\ tpc' = [tpc EXCEPT ![i] = "awaiting"]
    /\ UNCHANGED <<models, messages, reasoning_effort, copc, coros, tres, settled,
                   outer, result, order>>

\* Settle where a failing call also cancels the siblings still awaiting.
SettleCancellingSiblings(i, tr) ==
    LET end == QueryModelEnd(coros[i], tr)
        hit == IF IsNone(end.value)
               THEN {j \in Positions : tpc[j] = "awaiting" /\ j # i}
               ELSE {}
        cancelled == [raised |-> FALSE, exc |-> "", value |-> None, printed |-> <<>>]
    IN  /\ i \in Positions
        /\ tpc[i] = "awaiting"
        /\ tpc' = [j \in Positions |-> IF j = i \/ j \in hit THEN "done" ELSE tpc[j]]
        /\ tres' = (i :> tr) @@ tres
        /\ settled' = (i :> end) @@ [j \in hit |-> cancelled] @@ settled
        /\ outer' = IF copc = "direct" THEN outer
                    ELSE GatherDoneCallback(outer, settled', Len(coros), i)
        /\ UNCHANGED <<models, messages, reasoning_effort, copc, coros, requests, result>>

\* Settle where a failed attempt is followed by a second request.
SettleRetrying(i, tr) ==
    LET end == QueryModelEnd(coros[i], tr)
    IN  /\ i \in Positions
        /\ tpc[i] = "awaiting"
        /\ IF IsNone(end.value) /\ Len(requests) <= Len(coros)
           THEN /\ requests' = Append(requests, BuildKwargs(coros[i]))
                /\ UNCHANGED <<tpc, tres, settled, outer>>
           ELSE /\ tpc' = [tpc EXCEPT ![i] = "done"]
                /\ tres' = (i :> tr) @@ tres
                /\ settled' = (i :> end) @@ settled
                /\ outer' = IF copc = "direct" THEN outer
                            ELSE GatherDoneCallback(outer, settled', Len(coros), i)
                /\ UNCHANGED requests
        /\ UNCHANGED <<models, messages, reasoning_effort, copc, coros, result>>

\* Lines 41-70: acompletion raises or returns, query_model runs to its end,
\* and gather's done callback records the child.
Settle(i, tr) ==
    /\ i \in Positions
    /\ tpc[i] = "awaiting"
    /\ tpc' = [tpc EXCEPT ![i] = "done"]
    /\ tres' = (i :> tr) @@ tres
    /\ settled' = (i :> QueryModelEnd(coros[i], tr)) @@ settled
    /\ outer' = IF copc = "direct" THEN outer
                ELSE GatherDoneCallback(outer, settled', Len(coros), i)
    /\ UNCHANGED <<models, messages, reasoning_effort, copc, coros, requests, result>>

\* Lines 93-96: the await of gather ends; the exception it holds is raised
\* out of query_models_parallel, or the dict is built and returned.
Resume ==
    /\ copc = "gathering"
    /\ outer.state \in {"result", "exception"}
    /\ IF outer.state = "exception"
       THEN /\ copc' = "raised"
            /\ UNCHANGED result
       ELSE /\ copc' = "returned"
            /\ result' = DictComp(models, outer.results, ZipLen(models, outer.results))
    /\ UNCHANGED <<models, messages, reasoning_effort, coros, tpc, requests, tres,
                   settled, outer, order>>

\* ------------------------------------------------------------ specifications
\* A caller about to call query_models_parallel(models, messages, reasoning_effort).
Init ==
    /\ models \in ModelLists
    /\ messages = Messages
    /\ reasoning_effort \in FanoutEfforts
    /\ copc = "idle"
    /\ coros = <<>>
    /\ tpc = <<>>
    /\ requests = <<>>
    /\ tres = <<>>
    /\ settled = <<>>
    /\ outer = NoFuture
    /\ result = <<>>
    /\ order = <<>>

Next ==
    \/ Call
    \/ \E i \in Positions : Start(i)
    \/ \E i \in Positions : \E tr \in FanoutResults : Settle(i, tr) /\ UNCHANGED order
    \/ Resume

Spec == Init /\ [][Next]_vars

\* A caller that has created one query_model(model, messages, timeout,
\* reasoning_effort) coroutine and awaits it directly.
Timeouts == {DefaultTimeout, 30}

InitInvoker ==
    /\ models = <<>>
    /\ messages = Messages
    /\ reasoning_effort = None
    /\ copc = "direct"
    /\ \E m \in Providers : \E to \in Timeouts : \E e \in Efforts :
            coros = <<Args(m, Messages, to, e)>>
    /\ tpc = <<"created">>
    /\ requests = <<>>
    /\ tres = <<>>
    /\ settled = <<>>
    /\ outer = NoFuture
    /\ result = <<>>
    /\ order = <<>>

NextInvoker ==
    \/ Start(1)
    \/ \E tr \in AllResults : Settle(1, tr) /\ UNCHANGED order

SpecInvoker == InitInvoker /\ [][NextInvoker]_vars

\* The fan-out with the completion order recorded: the same calls, against a
\* timeout and two distinguishable successes, the hint left out.
OrderResults ==
    {Raise("APITimeoutError"),
     Return(Response(<<Choice(Msg1)>>)),
     Return(Response(<<Choice(Msg2), Choice(Msg1)>>))}

InitOrder ==
    /\ models \in ModelLists
    /\ messages = Messages
    /\ reasoning_effort = None
    /\ copc = "idle"
    /\ coros = <<>>
    /\ tpc = <<>>
    /\ requests = <<>>
    /\ tres = <<>>
    /\ settled = <<>>
    /\ outer = NoFuture
    /\ result = <<>>
    /\ order = <<>>

NextOrder ==
    \/ Call
    \/ \E i \in Positions : Start(i)
    \/ \E i \in Positions : \E tr \in OrderResults :
            Settle(i, tr) /\ order' = Append(order, i)
    \/ Resume

SpecOrder == InitOrder /\ [][NextOrder]_vars

\* The fan-out on an event loop that runs every ready task and a transport
\* that ends every request (each request is bounded by its timeout): a
\* created task is started, an awaited request returns or raises, and the
\* coordinator is resumed once gather's future is done.
Fairness ==
    /\ WF_vars(\E i \in Positions : Start(i))
    /\ \A i \in 1..MaxModels :
          WF_vars(\E tr \in OrderResults : Settle(i, tr) /\ order' = Append(order, i))
    /\ WF_vars(Resume)

SpecFair == SpecOrder /\ Fairness

\* ------------------------------------------------------------------- claims
Returned == copc = "returned"
IdSet == {models[i] : i \in DOMAIN models}
UniqueIds == \A i, j \in DOMAIN models : models[i] = models[j] => i = j
LastOfItsId(i) == \A j \in DOMAIN models : models[j] = models[i] => j <= i

\* A transport result that is a failure: an exception, a response with no
\* choices, or a first message with no content attribute.
Failed(tr) ==
    \/ tr.kind = "raise"
    \/ /\ tr.kind = "return"
       /\ \/ tr.response.choices = <<>>
          \/ "content" \notin DOMAIN tr.response.choices[1].message

\* The content of the first choice's message of a well-formed response.
PrimaryContent(tr) == tr.response.choices[1].message["content"]

AllSettled == Len(coros) = Len(models) /\ DOMAIN tres = 1..Len(models)

\* C1 as stated: the returned map has as many entries as the input sequence
\* has elements, for every input sequence.
C1_Original == Returned => Cardinality(DOMAIN result) = Len(models)

\* C1 (amended): for every completed query_models_parallel call the number of
\* entries of the returned map equals the number of distinct identifiers of
\* the input sequence (its length when the identifiers are unique), whatever
\* mix of successes and failures occurred, all failing included.
C1_EntriesEqualDistinctIds ==
    Returned =>
        /\ Cardinality(DOMAIN result) = Cardinality(IdSet)
        /\ UniqueIds => Cardinality(DOMAIN result) = Len(models)

\* Three calls, two of them for the same identifier, all failed: two entries.
C1_Witness ==
    /\ Returned
    /\ Len(models) = 3
    /\ models[1] = models[3]
    /\ models[1] # models[2]
    /\ \A i \in 1..3 : Failed(tres[i])
    /\ Cardinality(DOMAIN result) = 2

\* C2: query_model never propagates a failure: when the transport raises an
\* authentication, rate-limit, timeout or any other exception, or returns a
\* malformed response, the call ends by returning None and raises nothing.
C2_QueryModelNeverRaises ==
    \A i \in DOMAIN settled :
        Failed(tres[i]) => /\ ~settled[i].raised
                           /\ IsNone(settled[i].value)

C2_Witness ==
    /\ copc = "direct"
    /\ 1 \in DOMAIN settled
    /\ tres[1] = Return(Response(<<>>))
    /\ ~settled[1].raised
    /\ IsNone(settled[1].value)

\* C3: when every provider call of a fan-out fails, whatever the failure
\* kinds and the completion order, no exception reaches or leaves
\* query_models_parallel, and the map it returns has every requested
\* identifier mapped to None.
C3_AllFailStillReturns ==
    (\A i \in DOMAIN tres : Failed(tres[i])) =>
        /\ copc # "raised"
        /\ outer.state # "exception"
        /\ AllSettled /\ copc # "idle" => outer.state = "result"
        /\ Returned => /\ DOMAIN result = IdSet
                       /\ \A k \in IdSet : IsNone(result[k])

C3_Witness ==
    /\ Returned
    /\ Len(models) = 3
    /\ \A i \in 1..3 : Failed(tres[i])
    /\ Cardinality({tres[i] : i \in 1..3}) = 3
    /\ \A k \in IdSet : IsNone(result[k])

\* C4: query_models_parallel returns, and the result list and map are
\* assembled, only when every scheduled call has settled: never while a call
\* is still created or awaiting, neither after a first failure nor after a
\* first success.
C4_ReturnsAfterAllSettled ==
    (copc \in {"returned", "raised"} \/ outer.state \in {"result", "exception"}) =>
        /\ Len(tpc) = Len(models)
        /\ \A i \in 1..Len(models) : tpc[i] = "done" /\ i \in DOMAIN settled

\* A call is still in flight after one sibling has failed and one succeeded,
\* and the coordinator is still waiting.
C4_Witness ==
    /\ copc = "gathering"
    /\ outer.state = "pending"
    /\ \E i, j, k \in Positions :
          /\ tpc[i] = "awaiting"
          /\ tpc[j] = "done" /\ Failed(tres[j])
          /\ tpc[k] = "done" /\ ~Failed(tres[k])

\* C5: a call that fails or times out ends as None and leaves its siblings
\* alone: every call that has ended, ended on its own transport result, a
\* call still awaiting has no outcome yet, and in the returned map a provider
\* that succeeded carries its Success although a sibling timed out or failed.
C5_FailureLeavesSiblingsAlone ==
    /\ \A j \in Positions :
          /\ tpc[j] = "done" <=> j \in DOMAIN settled
          /\ j \in DOMAIN settled <=> j \in DOMAIN tres
          /\ j \in DOMAIN settled =>
                /\ Failed(tres[j]) => IsNone(settled[j].value)
                /\ ~Failed(tres[j]) =>
                      /\ IsDict(settled[j].value)
                      /\ settled[j].value.v["content"] = PrimaryContent(tres[j])
    /\ Returned =>
          \A j \in DOMAIN models :
              (~Failed(tres[j]) /\ LastOfItsId(j)) =>
                  /\ IsDict(result[models[j]])
                  /\ result[models[j]].v["content"] = PrimaryContent(tres[j])

\* The slow provider (position 1) timed out while the fast one (position 2)
\* had already succeeded; the fast provider's Success is in the map.
C5_Witness ==
    /\ Returned
    /\ Len(models) = 2
    /\ UniqueIds
    /\ tres[1] = Raise("APITimeoutError")
    /\ ~Failed(tres[2])
    /\ IsNone(result[models[1]])
    /\ IsDict(result[models[2]])

\* C6: for a non-empty models list with unique identifiers the key set of the
\* returned map is exactly the set of identifiers of the list, one entry per
\* identifier, whatever order the calls completed in.
C6_KeysAreTheIdentifiers ==
    (Returned /\ Len(models) > 0 /\ UniqueIds) =>
        /\ DOMAIN result = IdSet
        /\ Cardinality(DOMAIN result) = Len(models)

C6_Witness ==
    /\ Returned
    /\ Len(models) = 3
    /\ UniqueIds
    /\ DOMAIN result = {models[1], models[2], models[3]}
    /\ Failed(tres[2])
    /\ ~Failed(tres[3])

\* C7: every key of the returned map is paired with the outcome of a call
\* that was issued for that identifier, the call at the identifier's position
\* when the identifier occurs once: None when that call's transport failed,
\* the Success built from that call's own response otherwise.
C7_PairedWithOwnOutcome ==
    Returned =>
        /\ \A i \in DOMAIN models :
              /\ requests[i]["model"] = Str(models[i])
              /\ LastOfItsId(i) =>
                    /\ result[models[i]] = settled[i].value
                    /\ Failed(tres[i]) => IsNone(result[models[i]])
                    /\ ~Failed(tres[i]) =>
                          /\ IsDict(result[models[i]])
                          /\ result[models[i]].v["content"] = PrimaryContent(tres[i])
        /\ \A k \in DOMAIN result :
              \E i \in DOMAIN models : models[i] = k /\ result[k] = settled[i].value

\* providers [A, B, C]: A succeeds with "hello", B times out, C raises an
\* authentication failure; the map is {A: {content: "hello"}, B: None, C: None}.
C7_Witness ==
    /\ Returned
    /\ models = <<"A", "B", "C">>
    /\ tres[1] = Return(Response(<<Choice([content |-> Str("hello")])>>))
    /\ tres[2] = Raise("APITimeoutError")
    /\ tres[3] = Raise("AuthenticationError")
    /\ result = [k \in {"A", "B", "C"} |->
                    IF k = "A" THEN Dict([content |-> Str("hello")]) ELSE None]

\* C8: when every provider call of a fan-out succeeds, every entry of the
\* returned map is a Success dict whose 'content' is the content of the first
\* choice's message of a response that provider gave (of its only response
\* when the identifier occurs once).
C8_AllSucceedAllSuccess ==
    (Returned /\ \A i \in DOMAIN models : ~Failed(tres[i])) =>
        /\ DOMAIN result = IdSet
        /\ \A k \in DOMAIN result :
              /\ IsDict(result[k])
              /\ "content" \in DOMAIN result[k].v
              /\ \E i \in DOMAIN models :
                    /\ models[i] = k
                    /\ result[k].v["content"] = PrimaryContent(tres[i])
        /\ \A i \in DOMAIN models :
              LastOfItsId(i) => result[models[i]].v["content"] = PrimaryContent(tres[i])

C8_Witness ==
    /\ Returned
    /\ Len(models) = 3
    /\ UniqueIds
    /\ \A i \in 1..3 : ~Failed(tres[i])
    /\ Len(tres[1].response.choices) = 2
    /\ result[models[1]].v["content"] = Str("hi")
    /\ result[models[2]].v["content"] = Str("hello")

\* A value that is no value: None, the empty string, the empty list.
EmptyPlaceholder(x) ==
    \/ x.t = "NoneType"
    \/ x.t = "str" /\ x.v = ""
    \/ x.t = "list" /\ x.v = <<>>

\* The response message supplies field f: it has the attribute, with a value.
Supplied(message, f) == f \in DOMAIN message /\ ~EmptyPlaceholder(message[f])

OptionalFields == {"reasoning_content", "thinking_blocks"}

\* C9: in a Success of query_model each of reasoning_content and
\* thinking_blocks is a key of the dict exactly when the response message
\* supplied it (the attribute exists and holds a non-empty value), then with
\* the message's value; otherwise the key is absent, never None or empty.
C9_OptionalFieldsIffSupplied ==
    \A i \in DOMAIN settled :
        ~Failed(tres[i]) =>
            LET message == tres[i].response.choices[1].message
                success == settled[i].value
            IN  /\ IsDict(success)
                /\ DOMAIN success.v \subseteq {"content"} \cup OptionalFields
                /\ \A f \in OptionalFields :
                      /\ f \in DOMAIN success.v <=> Supplied(message, f)
                      /\ f \in DOMAIN success.v =>
                            /\ success.v[f] = message[f]
                            /\ ~EmptyPlaceholder(success.v[f])

\* reasoning_content supplied, thinking_blocks present on the message as an
\* empty list: the first is a key of the Success, the second is not.
C9_Witness ==
    /\ 1 \in DOMAIN settled
    /\ ~Failed(tres[1])
    /\ tres[1].response.choices[1].message =
          [content |-> Str("hello"), reasoning_content |-> Str("r"),
           thinking_blocks |-> List(<<>>)]
    /\ DOMAIN settled[1].value.v = {"content", "reasoning_content"}

SettleRank(i) == CHOOSE p \in DOMAIN order : order[p] = i

\* Among the calls for identifier k, the one that settled last.
LastSettledOf(k) ==
    CHOOSE i \in DOMAIN models :
        /\ models[i] = k
        /\ \A j \in DOMAIN models : models[j] = k => SettleRank(j) <= SettleRank(i)

\* The last position of identifier k in the input sequence.
LastPositionOf(k) ==
    CHOOSE i \in DOMAIN models :
        models[i] = k /\ \A j \in DOMAIN models : models[j] = k => j <= i

\* C11 as stated: with a repeated identifier the surviving entry is the
\* outcome of the call that settled last among the calls for that identifier.
C11_Original ==
    Returned => \A k \in DOMAIN result : result[k] = settled[LastSettledOf(k)].value

\* C11 (amended): with a repeated identifier the entries overwrite each other
\* and the surviving entry is the outcome of the call at the identifier's last
\* position in the input sequence, whatever order the calls settled in.
C11_LastPositionWins ==
    Returned =>
        \A k \in IdSet :
            /\ k \in DOMAIN result
            /\ result[k] = settled[LastPositionOf(k)].value
            /\ Failed(tres[LastPositionOf(k)]) => IsNone(result[k])
            /\ ~Failed(tres[LastPositionOf(k)]) =>
                  /\ IsDict(result[k])
                  /\ result[k].v["content"] = PrimaryContent(tres[LastPositionOf(k)])

\* Two calls for one identifier: the second position succeeded first, the
\* first position timed out last, and the entry is the second position's.
C11_Witness ==
    /\ Returned
    /\ Len(models) = 2
    /\ models[1] = models[2]
    /\ order = <<2, 1>>
    /\ tres[1] = Raise("APITimeoutError")
    /\ ~Failed(tres[2])
    /\ IsDict(result[models[1]])

\* C12: every query_model call issues exactly one transport request and ends
\* in exactly one outcome, failure or not: the requests issued are one per
\* started position, in position order, none is added when a call fails, and
\* a fan-out over N identifiers that has returned issued exactly N requests.
C12_OneRequestPerCall ==
    /\ Len(requests) = Cardinality({i \in Positions : tpc[i] # "created"})
    /\ Len(requests) <= Len(models)
    /\ \A r \in DOMAIN requests : requests[r]["model"] = Str(models[r])
    /\ \A i \in Positions : tpc[i] = "done" <=> i \in DOMAIN settled
    /\ Returned =>
          /\ Len(requests) = Len(models)
          /\ DOMAIN settled = 1..Len(models)

\* Three calls, all failed, three requests.
C12_Witness ==
    /\ Returned
    /\ Len(models) = 3
    /\ \A i \in 1..3 : Failed(tres[i])
    /\ Len(requests) = 3

\* The text that names the failure kind of a transport result.
KindText(tr) ==
    IF tr.kind = "raise" /\ tr.exc = "AuthenticationError" THEN "Authentication error for"
    ELSE IF tr.kind = "raise" /\ tr.exc = "RateLimitError" THEN "Rate limit error for"
    ELSE IF tr.kind = "raise" /\ tr.exc = "APITimeoutError" THEN "Timeout error for"
    ELSE "Error querying model"

\* C13: a failed query_model call prints exactly one diagnostic line, which
\* names the failing identifier and the failure kind (authentication, rate
\* limit, timeout, other); a successful call prints none; and the call
\* returns None on failure whatever was printed.
C13_OneDiagnosticPerFailure ==
    \A i \in DOMAIN settled :
        /\ Failed(tres[i]) =>
              /\ Len(settled[i].printed) = 1
              /\ settled[i].printed[1].model = coros[i].model
              /\ settled[i].printed[1].text = KindText(tres[i])
              /\ IsNone(settled[i].value)
              /\ ~settled[i].raised
        /\ ~Failed(tres[i]) => settled[i].printed = <<>>

C13_Witness ==
    /\ copc = "direct"
    /\ 1 \in DOMAIN settled
    /\ tres[1] = Raise("RateLimitError")
    /\ Len(settled[1].printed) = 1
    /\ settled[1].printed[1].text = "Rate limit error for"

\* C14: when every transport call eventually returns or raises, a fan-out
\* that has started eventually returns.
C14_EventuallyReturns == (copc = "gathering") ~> (copc = "returned")

\* The slowest call was the first position, which timed out; the fan-out
\* has returned.
C14_Witness ==
    /\ Returned
    /\ Len(models) = 3
    /\ order = <<3, 2, 1>>
    /\ tres[1] = Raise("APITimeoutError")
    /\ ~Failed(tres[2])

C16_RequestFrame ==
    /\ [](/\ messages = Messages
          /\ \A r \in DOMAIN requests :
                /\ {"model", "messages", "timeout"} \subseteq DOMAIN requests[r]
                /\ requests[r]["model"] = Str(models[r])
                /\ requests[r]["messages"] = List(Messages)
                /\ requests[r]["timeout"] = Float(120))
    /\ [][models' = models /\ messages' = messages]_vars

C16_Witness ==
    /\ Returned
    /\ models = <<"A", "B", "A">>
    /\ Len(requests) = 3
    /\ requests[3]["model"] = Str("A")
    /\ requests[3]["timeout"] = Float(120)
    /\ messages = Messages

\* What the returned map holds for a position's transport result.
ExpectedOutcome(tr) ==
    IF Failed(tr) THEN None ELSE ExtractResult(tr.response.choices[1].message)

\* C17: the returned map is a function of the input sequence and of the
\* transport result of each position alone: whatever order the calls settled
\* in, it maps each identifier to the outcome of its last position.
C17_MapIndependentOfOrder ==
    Returned =>
        result = [k \in IdSet |-> ExpectedOutcome(tres[LastPositionOf(k)])]

\* A repeated identifier, settled in the reverse of the input order.
C17_Witness ==
    /\ Returned
    /\ models = <<"A", "B", "A">>
    /\ order = <<3, 2, 1>>
    /\ ~Failed(tres[1])
    /\ Failed(tres[3])
    /\ IsNone(result["A"])

\* C18: a well-formed response whose content is None gives a Success dict
\* with 'content' None, not None itself; query_model returns None exactly
\* when the transport call or the reading of the first choice's message
\* raised.
C18_NullContentIsSuccess ==
    \A i \in DOMAIN settled :
        /\ IsNone(settled[i].value) <=> Failed(tres[i])
        /\ ~Failed(tres[i]) =>
              /\ IsDict(settled[i].value)
              /\ "content" \in DOMAIN settled[i].value.v
              /\ settled[i].value.v["content"] = PrimaryContent(tres[i])

C18_Witness ==
    /\ copc = "direct"
    /\ 1 \in DOMAIN settled
    /\ tres[1] = Return(Response(<<Choice([content |-> None])>>))
    /\ settled[1].value = Dict([content |-> None])
====
